---- MODULE Spec2Model ----
(***************************************************************************)
(* Trigger and lifecycle controller of the tooltip/popover overlay         *)
(* (BVTooltip, src/unnamed/part_000).                                      *)
(*                                                                         *)
(* The controller's fields are the variables; every method is an operator  *)
(* from a controller record to a controller record, so that nested calls   *)
(* (click -> enter -> show -> createTemplateAndShow) compose as in the     *)
(* code.  Each action is one callback of the single-threaded event loop:   *)
(* a DOM event, a timer, a template lifecycle event or a global command.   *)
(***************************************************************************)
EXTENDS Integers, Sequences, FiniteSets, TLC

\* ------------------------------------------------------------------ bounds
\* Template instances that may be alive at once (the current one and orphans).
MaxTips == 2
\* Hide-delay timers (setTimeout in leave) that may be pending at once.
MaxLeaveTimeouts == 2
\* Copies of the controller's own id that aria-describedby may hold.
MaxOwnIds == 2
\* Length of the aria-describedby values the host may start with.
MaxAttrLen == 3
\* Largest magnitude of a number given as delay (in the delay-input set).
MaxDelay == 2
\* Length of the strings given as delay.
MaxDelayStrLen == 2

\* ------------------------------------------------------------ configuration
Kinds == {"hover", "click", "focus", "manual"}

\* Values of the `delay` prop: a number, a string, an object whose show and
\* hide fields may be numbers (`numeric` names those that are), or a value of
\* another type.
NumDelay(n) == [kind |-> "number", show |-> n, hide |-> n, numeric |-> {}, str |-> <<>>]
StrDelay(str) == [kind |-> "string", show |-> 0, hide |-> 0, numeric |-> {}, str |-> str]
ObjDelay(sh, hd, num) ==
  [kind |-> "object", show |-> sh, hide |-> hd, numeric |-> num, str |-> <<>>]
OtherDelay == [kind |-> "other", show |-> 0, hide |-> 0, numeric |-> {}, str |-> <<>>]

NoDelay == NumDelay(0)
Delayed == ObjDelay(100, 50, {"show", "hide"})

\* Forms of the `target` prop: element reference, component reference
\* (with $el), id string, id string with a leading '#'.
TargetForms == {"element", "component", "id", "#id"}

\* Where the host element is: in a plain container, inside .modal-content,
\* or it is itself the root element of a dropdown component.
HostKinds == {"plain", "modal", "dropdown"}

\* State of the host element in the document.
HostStates == {"ok", "hidden", "detached", "dropdownOpen"}

\* aria-describedby as a string of characters: "a" and "b" are ids of other
\* elements, "T" is this controller's computedId, " " is whitespace.
ID == <<"T">>
NoAttr == [has |-> FALSE, v |-> <<>>]
Attr(str) == [has |-> TRUE, v |-> str]

\* A configuration: the props and the host the controller is created with.
\* triggers holds the canonical tokens of computedTriggers.
Cfg(t, tr, d, k, a) == [target |-> t, triggers |-> tr, delay |-> d, hostKind |-> k, aria |-> a]

Configs ==
  { Cfg("id", {"click", "hover"}, NoDelay, "dropdown", NoAttr),
    Cfg("#id", {"hover", "focus", "blur"}, Delayed, "modal", Attr(<<"b", " ", " ", "a">>)),
    Cfg("element", {"click", "hover"}, NoDelay, "plain", Attr(<<"a">>)),
    Cfg("component", {"click", "hover"}, NoDelay, "plain", NoAttr) }

\* Types of the DOM events handleEvent is registered for
DomTypes == {"click", "mouseenter", "mouseleave", "focusin", "focusout"}

\* States of a template instance.  "free": no instance in this slot.
TipStates == {"free", "created", "mounted", "shown", "hideCalled", "hiding"}

VARIABLES
  target,            \* prop target (its form)
  computedTriggers,  \* canonical trigger tokens
  delay,             \* prop delay
  hostKind,          \* kind of host element
  host,              \* state of the host element
  listening,         \* listen() registered the DOM and $root listeners
  activeTrigger,     \* data.activeTrigger
  hoverState,        \* data.hoverState
  localShow,         \* data.localShow
  enabled,           \* data.enabled
  tip,               \* this.$_tip: 0 is null, else the slot of the instance
  tips,              \* the live template instances, by slot
  hoverTimeout,      \* the timer whose handle is this.hoverTimeout is pending
  leaveTimeouts,     \* pending timers whose handle went to this.$hoverTimeout
  visibleInterval,   \* a setInterval visibility poll of visibleCheck is running
  modalListener,     \* forceHide is registered for bv::modal::hidden on $root
  dropdownListener,  \* forceHide is registered for the dropdown's shown
  aria,              \* the host's aria-describedby attribute
  aria0,             \* the attribute the host had when the controller was created
  destroyed,         \* $destroy() was called on the controller
  threw,             \* the callback that ran last ended in an uncaught exception
  hidAgain,          \* the callback that ran last called hide() on a template
                     \* instance that had been told to hide already
  lastEvt            \* the DOM event handleEvent was given by the callback that
                     \* ran last, "other" if that was no DOM event

vars == << target, computedTriggers, delay, hostKind, host, listening,
           activeTrigger, hoverState, localShow, enabled, tip, tips,
           hoverTimeout, leaveTimeouts, visibleInterval, modalListener,
           dropdownListener, aria, aria0, destroyed, threw, hidAgain, lastEvt >>

config == << target, computedTriggers, delay, hostKind, listening, aria0 >>

\* The controller (and the host state it reads) as one record.  `ok` turns
\* FALSE when a call would exceed a bound of the model; such steps are cut.
\* `threw` turns TRUE when a call ends in an uncaught exception, `hidAgain`
\* when it calls the hide() of a template that is hiding already.
St ==
  [ host |-> host, activeTrigger |-> activeTrigger, hoverState |-> hoverState,
    localShow |-> localShow, enabled |-> enabled, tip |-> tip, tips |-> tips,
    hoverTimeout |-> hoverTimeout, leaveTimeouts |-> leaveTimeouts,
    visibleInterval |-> visibleInterval, modalListener |-> modalListener,
    dropdownListener |-> dropdownListener, aria |-> aria, ok |-> TRUE,
    threw |-> FALSE, hidAgain |-> FALSE ]

Set(r, evt) ==
  /\ r.ok
  /\ host' = r.host
  /\ activeTrigger' = r.activeTrigger
  /\ hoverState' = r.hoverState
  /\ localShow' = r.localShow
  /\ enabled' = r.enabled
  /\ tip' = r.tip
  /\ tips' = r.tips
  /\ hoverTimeout' = r.hoverTimeout
  /\ leaveTimeouts' = r.leaveTimeouts
  /\ visibleInterval' = r.visibleInterval
  /\ modalListener' = r.modalListener
  /\ dropdownListener' = r.dropdownListener
  /\ aria' = r.aria
  /\ lastEvt' = IF evt \in DomTypes THEN evt ELSE "other"
  /\ UNCHANGED config
  /\ UNCHANGED destroyed
  /\ threw' = r.threw
  /\ hidAgain' = r.hidAgain

\* ------------------------------------------------- strings (aria-describedby)
\* String.prototype.split(/\s+/): cut at every maximal run of whitespace; a
\* leading or trailing run leaves an empty first or last token.
SplitWS(str) ==
  LET F[i \in 0..Len(str)] ==
        IF i = 0 THEN << <<>> >>
        ELSE IF str[i] = " "
             THEN IF i > 1 /\ str[i-1] = " " THEN F[i-1] ELSE Append(F[i-1], <<>>)
             ELSE [F[i-1] EXCEPT ![Len(F[i-1])] = Append(@, str[i])]
  IN  F[Len(str)]

\* Array.prototype.join(' ')
RECURSIVE JoinSp(_)
JoinSp(toks) ==
  IF Len(toks) = 0 THEN <<>>
  ELSE IF Len(toks) = 1 THEN toks[1]
  ELSE toks[1] \o <<" ">> \o JoinSp(Tail(toks))

\* String.prototype.trim()
RECURSIVE TrimLeft(_)
TrimLeft(str) ==
  IF Len(str) > 0 /\ Head(str) = " " THEN TrimLeft(Tail(str)) ELSE str

RECURSIVE TrimRight(_)
TrimRight(str) ==
  IF Len(str) > 0 /\ str[Len(str)] = " "
  THEN TrimRight(SubSeq(str, 1, Len(str) - 1)) ELSE str

Trim(str) == TrimRight(TrimLeft(str))

\* Array.prototype.filter(d => d !== this.computedId)
FilterNotId(toks) == SelectSeq(toks, LAMBDA d : d # ID)

\* ------------------------------------------------------------ host queries
Null == "null"

\* getTarget(): only a string target survives the isString test; an element
\* or component reference is replaced by null.  getById finds the element
\* only while it is in the document.
GetTarget(s) ==
  LET t0 == target    \* this.target.$el || this.target
      t1 == IF t0 \in {"id", "#id"}
            THEN (IF s.host # "detached" THEN "host" ELSE Null)
            ELSE Null
  IN  t1

\* getTargetId()
GetTargetId(s) == IF GetTarget(s) # Null THEN "hostId" ELSE Null

\* isVisible(target), document.body.contains(target)
IsVisible(s) == GetTarget(s) # Null /\ s.host \in {"ok", "dropdownOpen"}
InDocument(s) == GetTarget(s) # Null /\ s.host # "detached"
\* isDisabled(target): the host never carries the disabled attribute here
IsDisabled(s) == FALSE

IsInModal(s) == GetTarget(s) # Null /\ hostKind = "modal"
IsDropdown(s) == GetTarget(s) # Null /\ hostKind = "dropdown"
DropdownOpen(s) == IsDropdown(s) /\ s.host = "dropdownOpen"

\* parseInt(str, 10): leading whitespace is skipped, then an optional sign,
\* then the longest run of decimal digits; NaN if there is no digit.
DigitVal(c) == CASE c = "0" -> 0 [] c = "1" -> 1 [] c = "2" -> 2 [] c = "3" -> 3
                 [] c = "4" -> 4 [] c = "5" -> 5 [] c = "6" -> 6 [] c = "7" -> 7
                 [] c = "8" -> 8 [] c = "9" -> 9
DigitChars == {"0", "1", "2", "3", "4", "5", "6", "7", "8", "9"}

RECURSIVE DigitPrefix(_)
DigitPrefix(str) ==
  IF Len(str) > 0 /\ Head(str) \in DigitChars
  THEN <<Head(str)>> \o DigitPrefix(Tail(str))
  ELSE <<>>

RECURSIVE DigitsValue(_)
DigitsValue(digs) ==
  IF Len(digs) = 0 THEN 0
  ELSE 10 * DigitsValue(SubSeq(digs, 1, Len(digs) - 1)) + DigitVal(digs[Len(digs)])

NaN == [nan |-> TRUE, v |-> 0]
ParseInt(str) ==
  LET s1 == TrimLeft(str)
      signed == Len(s1) > 0 /\ s1[1] \in {"-", "+"}
      digs == DigitPrefix(IF signed THEN Tail(s1) ELSE s1)
  IN  IF digs = <<>> THEN NaN
      ELSE [nan |-> FALSE,
            v |-> IF signed /\ s1[1] = "-" THEN 0 - DigitsValue(digs) ELSE DigitsValue(digs)]

\* x || 0 for the result x of parseInt
OrZero(x) == IF x.nan THEN 0 ELSE x.v
\* Math.max
MathMax(a, b) == IF a > b THEN a ELSE b

\* Mutant of computedDelay: a string is not clamped at 0.
ComputedDelayOfNoClamp(d) ==
  CASE d.kind = "number" -> [show |-> d.show, hide |-> d.show]
    [] d.kind = "string" ->
         LET n == OrZero(ParseInt(d.str)) IN [show |-> n, hide |-> n]
    [] d.kind = "object" ->
         [show |-> IF "show" \in d.numeric THEN d.show ELSE 0,
          hide |-> IF "hide" \in d.numeric THEN d.hide ELSE 0]
    [] OTHER -> [show |-> 0, hide |-> 0]

\* computedDelay for the value d of the delay prop
ComputedDelayOf(d) ==
  CASE d.kind = "number" -> [show |-> d.show, hide |-> d.show]
    [] d.kind = "string" ->
         LET n == MathMax(OrZero(ParseInt(d.str)), 0) IN [show |-> n, hide |-> n]
    [] d.kind = "object" ->
         [show |-> IF "show" \in d.numeric THEN d.show ELSE 0,
          hide |-> IF "hide" \in d.numeric THEN d.hide ELSE 0]
    [] OTHER -> [show |-> 0, hide |-> 0]

\* computedDelay
ComputedDelay == ComputedDelayOf(delay)

\* ------------------------------------------------------ template instance
\* The template has an element ($el) from the moment it is mounted.
HasEl(st) == st \in {"mounted", "shown", "hideCalled", "hiding"}

\* Template.hide(): start hiding; a second call changes nothing.
TemplateHideCall(st) == IF st \in {"mounted", "shown"} THEN "hideCalled" ELSE st

\* getTemplateElement(): TRUE when it returns an element
GetTemplateElement(s) == s.tip # 0 /\ HasEl(s.tips[s.tip])

FreeSlots(s) == { i \in 1..MaxTips : s.tips[i] = "free" }
LowestFree(s) == CHOOSE i \in FreeSlots(s) : \A j \in FreeSlots(s) : i <= j

\* ---------------------------------------------------------------- methods
ClearActiveTriggers(s) == [s EXCEPT !.activeTrigger = [k \in Kinds |-> FALSE]]

IsWithActiveTrigger(s) == \E k \in Kinds : s.activeTrigger[k]

\* visibleCheck(on): clearInterval is given this.$_visibleInterval, which is
\* always null, so no running interval is ever stopped; the new handle goes
\* to this.visibleInterval.
VisibleCheck(s, on) ==
  IF on THEN [s EXCEPT !.visibleInterval = TRUE] ELSE s

SetModalListener(s, on) ==
  IF IsInModal(s)
  THEN [s EXCEPT !.modalListener = on]
  ELSE s

\* `!this.isDropdown` tests the method itself and is always false; the
\* listener goes on target.__vue__, which exists for a dropdown component.
SetDropdownListener(s, on) ==
  IF GetTarget(s) = Null THEN s
  ELSE IF hostKind = "dropdown"
       THEN [s EXCEPT !.dropdownListener = on]
       ELSE s

SetWhileOpenListeners(s, on) ==
  VisibleCheck(SetDropdownListener(SetModalListener(s, on), on), on)

\* createTemplateAndShow(): a new instance replaces this.$_tip; an instance
\* that was there is not destroyed.
CreateTemplateAndShow(s) ==
  IF FreeSlots(s) = {} THEN [s EXCEPT !.ok = FALSE]
  ELSE [s EXCEPT !.tips[LowestFree(s)] = "created", !.tip = LowestFree(s)]

\* Mutant of destroyTemplate(): the instance is destroyed but this.$_tip is
\* not reset to null.
DestroyTemplateKeepsTip(s) ==
  LET s1 == ClearActiveTriggers(SetWhileOpenListeners(s, FALSE))
  IN  [s1 EXCEPT !.hoverState = "", !.localShow = FALSE]

\* destroyTemplate(): clearTimeout is given this.$_hoverTimeout (always null).
DestroyTemplate(s) ==
  LET s1 == ClearActiveTriggers(SetWhileOpenListeners(s, FALSE))
  IN  [s1 EXCEPT !.hoverState = "",
                 !.localShow = FALSE,
                 !.tips = IF s.tip # 0 THEN [@ EXCEPT ![s.tip] = "free"] ELSE @,
                 !.tip = 0]

GetAttr(s) == IF GetTarget(s) # Null /\ s.aria.has THEN s.aria.v ELSE <<>>

OwnIds(str) == Len(SelectSeq(SplitWS(str), LAMBDA d : d = ID))

AddAriaDescribedby(s) ==
  LET desc == Trim(JoinSp(Append(SplitWS(GetAttr(s)), ID)))
  IN  IF GetTarget(s) = Null THEN s
      ELSE IF OwnIds(desc) > MaxOwnIds THEN [s EXCEPT !.ok = FALSE]
      ELSE [s EXCEPT !.aria = Attr(desc)]

\* Mutant of removeAriaDescribedby(): an attribute left without ids is set
\* to the empty string instead of being removed.
RemoveAriaDescribedbyKeepsEmpty(s) ==
  LET desc == Trim(JoinSp(FilterNotId(SplitWS(GetAttr(s)))))
  IN  IF GetTarget(s) = Null THEN s ELSE [s EXCEPT !.aria = Attr(desc)]

RemoveAriaDescribedby(s) ==
  LET desc == Trim(JoinSp(FilterNotId(SplitWS(GetAttr(s)))))
  IN  IF GetTarget(s) = Null THEN s
      ELSE IF desc # <<>> THEN [s EXCEPT !.aria = Attr(desc)]
      ELSE [s EXCEPT !.aria = NoAttr]

\* Mutant of BvEvent: preventDefault() takes effect on every event.
DefaultPreventedAlways(cancelable, prevent) == prevent

\* BvEvent: preventDefault() takes effect only on a cancelable event.
DefaultPrevented(cancelable, prevent) == cancelable /\ prevent

\* show(): `prevent` says whether a listener of the show event calls
\* preventDefault().  In that case this.destroyTip() is called, which is no
\* method of the component: the TypeError ends show() there.
Show(s, prevent) ==
  IF GetTarget(s) = Null \/ ~InDocument(s) \/ ~IsVisible(s) \/ DropdownOpen(s)
  THEN s
  ELSE IF DefaultPrevented(TRUE, prevent) THEN [s EXCEPT !.threw = TRUE]
  ELSE CreateTemplateAndShow([AddAriaDescribedby(s) EXCEPT !.localShow = TRUE])

HideTemplate(s) ==
  IF s.tip # 0
  THEN [s EXCEPT !.tips[s.tip] = TemplateHideCall(@),
                 !.hidAgain = @ \/ s.tips[s.tip] \in {"hideCalled", "hiding"}]
  ELSE s

Hide(s, force, prevent) ==
  IF ~GetTemplateElement(s) \/ ~s.localShow THEN s
  ELSE IF DefaultPrevented(~force, prevent) THEN s
  ELSE [ClearActiveTriggers(HideTemplate(s)) EXCEPT !.hoverState = ""]

\* Mutant of forceHide(): hide() is called without force and the active
\* triggers are left alone.
ForceHideKeepsTriggers(s) ==
  IF ~GetTemplateElement(s) \/ ~s.localShow THEN s
  ELSE LET s1 == SetWhileOpenListeners(s, FALSE)
           s2 == [s1 EXCEPT !.hoverTimeout = FALSE, !.hoverState = ""]
       IN  [HideTemplate(s2) EXCEPT !.hoverState = ""]

ForceHide(s) ==
  IF ~GetTemplateElement(s) \/ ~s.localShow THEN s
  ELSE LET s1 == SetWhileOpenListeners(s, FALSE)
           s2 == [s1 EXCEPT !.hoverTimeout = FALSE, !.hoverState = ""]
       IN  Hide(ClearActiveTriggers(s2), TRUE, FALSE)

Enable(s) == [s EXCEPT !.enabled = TRUE]
Disable(s) == [s EXCEPT !.enabled = FALSE]

\* Mutant of enter(evt): the trigger of the event is not marked active.
EnterNoFlag(s, evt, prevent) ==
  IF s.localShow \/ s.hoverState = "in"
  THEN [s EXCEPT !.hoverState = "in"]
  ELSE LET s2 == [s EXCEPT !.hoverTimeout = FALSE, !.hoverState = "in"]
       IN  IF ComputedDelay.show = 0
           THEN Show(s2, prevent)
           ELSE [s2 EXCEPT !.hoverTimeout = TRUE]

\* enter(evt): evt is "null" for a call without event (click, toggle).
Enter(s, evt, prevent) ==
  LET s1 == IF evt # Null
            THEN [s EXCEPT !.activeTrigger[IF evt = "focusin" THEN "focus" ELSE "hover"] = TRUE]
            ELSE s
  IN  IF s1.localShow \/ s1.hoverState = "in"
      THEN [s1 EXCEPT !.hoverState = "in"]
      ELSE LET s2 == [s1 EXCEPT !.hoverTimeout = FALSE, !.hoverState = "in"]
           IN  IF ComputedDelay.show = 0
               THEN Show(s2, prevent)
               ELSE [s2 EXCEPT !.hoverTimeout = TRUE]

\* Mutant of leave(evt): the pending show timer is not cleared (clearTimeout
\* is given a handle other than this.hoverTimeout).
LeaveKeepsShowTimer(s, evt, prevent) ==
  LET s0 == IF evt # Null
            THEN [s EXCEPT !.activeTrigger[IF evt = "focusout" THEN "focus" ELSE "hover"] = FALSE]
            ELSE s
      s1 == IF evt = "focusout" /\ "blur" \in computedTriggers
            THEN [s0 EXCEPT !.activeTrigger["click"] = FALSE,
                            !.activeTrigger["hover"] = FALSE]
            ELSE s0
  IN  IF IsWithActiveTrigger(s1) THEN s1
      ELSE LET s2 == [s1 EXCEPT !.hoverState = "out"]
           IN  IF ComputedDelay.hide = 0
               THEN Hide(s2, FALSE, prevent)
               ELSE IF s2.leaveTimeouts >= MaxLeaveTimeouts
                    THEN [s2 EXCEPT !.ok = FALSE]
                    ELSE [s2 EXCEPT !.leaveTimeouts = @ + 1]

\* Mutant of leave(evt): the isWithActiveTrigger test is missing.
LeaveNoActiveTest(s, evt, prevent) ==
  LET s0 == IF evt # Null
            THEN [s EXCEPT !.activeTrigger[IF evt = "focusout" THEN "focus" ELSE "hover"] = FALSE]
            ELSE s
      s1 == IF evt = "focusout" /\ "blur" \in computedTriggers
            THEN [s0 EXCEPT !.activeTrigger["click"] = FALSE,
                            !.activeTrigger["hover"] = FALSE]
            ELSE s0
      s2 == [s1 EXCEPT !.hoverTimeout = FALSE, !.hoverState = "out"]
  IN  IF ComputedDelay.hide = 0
      THEN Hide(s2, FALSE, prevent)
      ELSE IF s2.leaveTimeouts >= MaxLeaveTimeouts
           THEN [s2 EXCEPT !.ok = FALSE]
           ELSE [s2 EXCEPT !.leaveTimeouts = @ + 1]

\* leave(evt): the new timer's handle is stored in this.$hoverTimeout, which
\* no clearTimeout call reads.
Leave(s, evt, prevent) ==
  LET s0 == IF evt # Null
            THEN [s EXCEPT !.activeTrigger[IF evt = "focusout" THEN "focus" ELSE "hover"] = FALSE]
            ELSE s
      s1 == IF evt = "focusout" /\ "blur" \in computedTriggers
            THEN [s0 EXCEPT !.activeTrigger["click"] = FALSE,
                            !.activeTrigger["hover"] = FALSE]
            ELSE s0
  IN  IF IsWithActiveTrigger(s1) THEN s1
      ELSE LET s2 == [s1 EXCEPT !.hoverTimeout = FALSE, !.hoverState = "out"]
           IN  IF ComputedDelay.hide = 0
               THEN Hide(s2, FALSE, prevent)
               ELSE IF s2.leaveTimeouts >= MaxLeaveTimeouts
                    THEN [s2 EXCEPT !.ok = FALSE]
                    ELSE [s2 EXCEPT !.leaveTimeouts = @ + 1]

Click(s, prevent) ==
  IF ~s.enabled \/ DropdownOpen(s) THEN s
  ELSE LET s1 == [s EXCEPT !.activeTrigger["click"] = ~@]
       IN  IF IsWithActiveTrigger(s1) THEN Enter(s1, Null, prevent)
           ELSE Leave(s1, Null, prevent)

Toggle(s, prevent) ==
  IF ~s.enabled \/ DropdownOpen(s) THEN s
  ELSE IF s.localShow THEN Leave(s, Null, prevent)
  ELSE Enter(s, Null, prevent)

\* Mutant of the focusout test in handleEvent: the "from target to tip"
\* case is missing.
FocusStaysInsideNoTargetToTip(s, evtTarget, relatedTarget) ==
  LET tipEl == GetTemplateElement(s)
  IN  \/ tipEl /\ evtTarget = "tip" /\ relatedTarget = "host"
      \/ tipEl /\ evtTarget = "tip" /\ relatedTarget = "tip"
      \/ evtTarget = "host" /\ relatedTarget = "host"

\* The focusout test of handleEvent.  evtTarget and relatedTarget are
\* "host" (in the host subtree), "tip" (in the template element) or "other".
FocusStaysInside(s, evtTarget, relatedTarget) ==
  LET tipEl == GetTemplateElement(s)
  IN  \/ tipEl /\ evtTarget = "tip" /\ relatedTarget = "host"
      \/ tipEl /\ evtTarget = "host" /\ relatedTarget = "tip"
      \/ tipEl /\ evtTarget = "tip" /\ relatedTarget = "tip"
      \/ evtTarget = "host" /\ relatedTarget = "host"

\* handleEvent without its test of `enabled`
HandleEventNoEnabledTest(s, type, evtTarget, relatedTarget, prevent) ==
  IF GetTarget(s) = Null \/ IsDisabled(s) \/ DropdownOpen(s) THEN s
  ELSE IF type = "click" /\ "click" \in computedTriggers THEN Click(s, prevent)
  ELSE IF type = "mouseenter" /\ "hover" \in computedTriggers THEN Enter(s, type, prevent)
  ELSE IF type = "mouseleave" /\ "hover" \in computedTriggers THEN Leave(s, type, prevent)
  ELSE IF type = "focusin" /\ "focus" \in computedTriggers THEN Enter(s, type, prevent)
  ELSE IF type = "focusout" /\ ("focus" \in computedTriggers \/ "blur" \in computedTriggers)
       THEN IF FocusStaysInside(s, evtTarget, relatedTarget) THEN s
            ELSE Leave(s, type, prevent)
  ELSE s

HandleEvent(s, type, evtTarget, relatedTarget, prevent) ==
  IF GetTarget(s) = Null \/ IsDisabled(s) \/ ~s.enabled \/ DropdownOpen(s) THEN s
  ELSE IF type = "click" /\ "click" \in computedTriggers THEN Click(s, prevent)
  ELSE IF type = "mouseenter" /\ "hover" \in computedTriggers THEN Enter(s, type, prevent)
  ELSE IF type = "mouseleave" /\ "hover" \in computedTriggers THEN Leave(s, type, prevent)
  ELSE IF type = "focusin" /\ "focus" \in computedTriggers THEN Enter(s, type, prevent)
  ELSE IF type = "focusout" /\ ("focus" \in computedTriggers \/ "blur" \in computedTriggers)
       THEN IF FocusStaysInside(s, evtTarget, relatedTarget) THEN s
            ELSE Leave(s, type, prevent)
  ELSE s

\* Mutant of the id test of doHide/doShow/doDisable/doEnable: a command with
\* any id is applied.
AddressedAnyId(s, id) == TRUE

\* Does a global command with this id argument address this controller?
\* id is "" (no id), "own" (computedId), "hostId" or "otherId".
Addressed(s, id) == id = "" \/ GetTargetId(s) = id \/ id = "own"

DoHide(s, id) == IF Addressed(s, id) THEN ForceHide(s) ELSE s
DoShow(s, id, prevent) == IF Addressed(s, id) THEN Show(s, prevent) ELSE s
DoDisable(s, id) == IF Addressed(s, id) THEN Disable(s) ELSE s
DoEnable(s, id) == IF Addressed(s, id) THEN Enable(s) ELSE s

\* Handlers of the template's lifecycle events
OnTemplateShow(s) == SetWhileOpenListeners(s, TRUE)

\* Mutant of onTemplateShown(): hoverState is cleared but no leave follows.
OnTemplateShownNoLeave(s, prevent) == [s EXCEPT !.hoverState = ""]

OnTemplateShown(s, prevent) ==
  LET s1 == [s EXCEPT !.hoverState = ""]
  IN  IF s.hoverState = "out" THEN Leave(s1, Null, prevent) ELSE s1

OnTemplateHide(s) == SetWhileOpenListeners(s, FALSE)

OnTemplateHidden(s) == DestroyTemplate(RemoveAriaDescribedby(s))

\* ---------------------------------------------------------------- actions
\* listen(): which DOM events of the host have handleEvent registered
Listens(type) ==
  /\ listening
  /\ \/ type = "click" /\ "click" \in computedTriggers
     \/ type \in {"focusin", "focusout"} /\ "focus" \in computedTriggers
     \/ type = "focusout" /\ "blur" \in computedTriggers
     \/ type \in {"mouseenter", "mouseleave"} /\ "hover" \in computedTriggers

\* A DOM event on the host element (the user can reach it: it is attached
\* and visible).  relatedTarget matters to focusout only.
HostEvent(type, rel, prevent) ==
  /\ Listens(type)
  /\ host \in {"ok", "dropdownOpen"}
  /\ IF type = "focusout" THEN (rel = "tip" => GetTemplateElement(St)) ELSE rel = "other"
  /\ Set(HandleEvent(St, type, "host", rel, prevent), type)

\* A focus/hover event inside the element of template instance i, which the
\* template forwards to handleEvent.
TipEvent(i, type, rel, prevent) ==
  /\ HasEl(tips[i])
  /\ type # "click"
  /\ IF type = "focusout" THEN (rel = "tip" => i = tip) ELSE rel = "other"
  /\ Set(HandleEvent(St, type, IF i = tip THEN "tip" ELSE "other", rel, prevent),
         type)

\* toggle() called by the owner
ToggleCall(prevent) ==
  LET r == Toggle(St, prevent)
  IN  r.ok /\ Set(r, "toggle")

\* Global commands on $root (registered by listen())
GlobalHide(id) == listening /\ Set(DoHide(St, id), "doHide")
GlobalShow(id, prevent) == listening /\ Set(DoShow(St, id, prevent), "doShow")
GlobalDisable(id) == listening /\ Set(DoDisable(St, id), "doDisable")
GlobalEnable(id) == listening /\ Set(DoEnable(St, id), "doEnable")

\* The show-delay timer of enter() fires
ShowTimeout(prevent) ==
  /\ hoverTimeout
  /\ LET s1 == [St EXCEPT !.hoverTimeout = FALSE]
     IN  Set(IF s1.hoverState = "in" THEN Show(s1, prevent) ELSE s1,
             "showTimeout")

\* The oldest hide-delay timer of leave() fires
LeaveTimeout(prevent) ==
  /\ leaveTimeouts > 0
  /\ LET s1 == [St EXCEPT !.leaveTimeouts = @ - 1]
     IN  Set(IF s1.hoverState = "out" THEN Hide(s1, FALSE, prevent) ELSE s1,
             "leaveTimeout")

\* What the interval callback of visibleCheck does in state s
PollCallback(s) ==
  IF GetTemplateElement(s) /\ ~IsVisible(s) /\ s.localShow THEN ForceHide(s) ELSE s

\* A visibility poll fires
VisiblePoll ==
  /\ visibleInterval
  /\ Set(PollCallback(St), "visiblePoll")

\* bv::modal::hidden on $root runs the registered forceHide
ModalHidden ==
  /\ modalListener
  /\ Set(ForceHide(St), "modalHidden")

\* deactivated() hook (keep-alive)
Deactivated ==
  LET r == ForceHide(St)
  IN  r.ok /\ Set(r, "deactivated")

\* The host element changes state.  A dropdown that opens its menu emits
\* `shown`, which runs the registered forceHide.
HostChange(h) ==
  /\ h # host
  /\ h = "dropdownOpen" => hostKind = "dropdown"
  /\ LET s1 == [St EXCEPT !.host = h]
     IN  Set(IF h = "dropdownOpen" /\ dropdownListener THEN ForceHide(s1) ELSE s1,
             "hostChange")

\* Lifecycle of template instance i: the events it emits, in order.
\* created -show-> mounted -shown-> shown; after hide(): -hide-> hiding
\* -hidden-> gone; a failed mount emits selfdestruct instead of show.
TemplateCanEmit(i, ev) ==
  \/ ev = "show" /\ tips[i] = "created"
  \/ ev = "selfdestruct" /\ tips[i] = "created"
  \/ ev = "shown" /\ tips[i] = "mounted"
  \/ ev = "hide" /\ tips[i] = "hideCalled"
  \/ ev = "hidden" /\ tips[i] = "hiding"

\* The instance's own state after it emitted ev (the controller's handler
\* has run and may have destroyed it already).
TemplateAfter(s, i, ev) ==
  IF s.tips[i] = "free" THEN s
  ELSE [s EXCEPT !.tips[i] = CASE ev = "show" -> "mounted"
                               [] ev = "shown" -> "shown"
                               [] ev = "hide" -> "hiding"
                               [] OTHER -> "free"]

TemplateShow(i) ==
  /\ TemplateCanEmit(i, "show")
  /\ Set(TemplateAfter(OnTemplateShow(St), i, "show"), "show")

TemplateShown(i, prevent) ==
  /\ TemplateCanEmit(i, "shown")
  /\ Set(OnTemplateShown(TemplateAfter(St, i, "shown"), prevent), "shown")

TemplateHide(i) ==
  /\ TemplateCanEmit(i, "hide")
  /\ Set(TemplateAfter(OnTemplateHide(St), i, "hide"), "hide")

TemplateHidden(i) ==
  /\ TemplateCanEmit(i, "hidden")
  /\ Set(TemplateAfter(OnTemplateHidden(St), i, "hidden"), "hidden")

\* selfdestruct is bound to destroyTemplate
TemplateSelfDestruct(i) ==
  /\ TemplateCanEmit(i, "selfdestruct")
  /\ Set(TemplateAfter(DestroyTemplate(St), i, "selfdestruct"),
         "selfdestruct")

\* ------------------------------------------------------------ specification
\* data() and created(): listen() registers listeners only if getTarget()
\* finds the host.
Created(c) ==
  /\ target = c.target
  /\ computedTriggers = c.triggers
  /\ delay = c.delay
  /\ hostKind = c.hostKind
  /\ host = "ok"
  /\ aria = c.aria
  /\ aria0 = c.aria
  /\ destroyed = FALSE
  /\ threw = FALSE
  /\ hidAgain = FALSE
  /\ activeTrigger = [k \in Kinds |-> FALSE]
  /\ hoverState = ""
  /\ localShow = FALSE
  /\ enabled = TRUE
  /\ tip = 0
  /\ tips = [i \in 1..MaxTips |-> "free"]
  /\ hoverTimeout = FALSE
  /\ leaveTimeouts = 0
  /\ visibleInterval = FALSE
  /\ modalListener = FALSE
  /\ dropdownListener = FALSE
  /\ listening = (target \in {"id", "#id"})
  /\ lastEvt = "other"

Init == \E c \in Configs : Created(c)

Places == {"host", "tip", "other"}
Ids == {"", "own", "hostId", "otherId"}

Next ==
  \/ \E ty \in DomTypes, rel \in Places, p \in BOOLEAN : HostEvent(ty, rel, p)
  \/ \E i \in 1..MaxTips, ty \in DomTypes, rel \in Places, p \in BOOLEAN : TipEvent(i, ty, rel, p)
  \/ \E p \in BOOLEAN : ToggleCall(p)
  \/ \E id \in Ids : GlobalHide(id)
  \/ \E id \in Ids, p \in BOOLEAN : GlobalShow(id, p)
  \/ \E id \in Ids : GlobalDisable(id)
  \/ \E id \in Ids : GlobalEnable(id)
  \/ \E p \in BOOLEAN : ShowTimeout(p)
  \/ \E p \in BOOLEAN : LeaveTimeout(p)
  \/ VisiblePoll
  \/ ModalHidden
  \/ Deactivated
  \/ \E h \in HostStates : HostChange(h)
  \/ \E i \in 1..MaxTips : TemplateShow(i)
  \/ \E i \in 1..MaxTips, p \in BOOLEAN : TemplateShown(i, p)
  \/ \E i \in 1..MaxTips : TemplateHide(i)
  \/ \E i \in 1..MaxTips : TemplateHidden(i)
  \/ \E i \in 1..MaxTips : TemplateSelfDestruct(i)

Spec == Init /\ [][Next]_vars

\* The trigger events of the host alone: DOM events on the host, the delay
\* timers they start and the template's lifecycle; no listener cancels a
\* show or hide event.
NextTriggers ==
  \/ \E ty \in DomTypes, rel \in Places : HostEvent(ty, rel, FALSE)
  \/ ShowTimeout(FALSE)
  \/ LeaveTimeout(FALSE)
  \/ \E i \in 1..MaxTips : TemplateShow(i)
  \/ \E i \in 1..MaxTips : TemplateShown(i, FALSE)
  \/ \E i \in 1..MaxTips : TemplateHide(i)
  \/ \E i \in 1..MaxTips : TemplateHidden(i)

SpecTriggers == Init /\ [][NextTriggers]_vars

\* triggers = "click" with zero delays on an enabled controller: clicks, the
\* template's lifecycle, listeners that may cancel, a host that may change
\* and the global show command.
InitClick == Created(Cfg("id", {"click"}, NoDelay, "plain", NoAttr))

NextClick ==
  \/ \E p \in BOOLEAN : HostEvent("click", "other", p)
  \/ \E id \in Ids, p \in BOOLEAN : GlobalShow(id, p)
  \/ \E h \in HostStates : HostChange(h)
  \/ \E i \in 1..MaxTips : TemplateShow(i)
  \/ \E i \in 1..MaxTips, p \in BOOLEAN : TemplateShown(i, p)
  \/ \E i \in 1..MaxTips : TemplateHide(i)
  \/ \E i \in 1..MaxTips : TemplateHidden(i)
  \/ \E i \in 1..MaxTips : TemplateSelfDestruct(i)

SpecClick == InitClick /\ [][NextClick]_vars

\* ------------------------------------------------------------------ claims
Live == { i \in 1..MaxTips : tips[i] # "free" }
AnyActive(at) == \E k \in Kinds : at[k]
\* instance i was told to hide in this step
HideStarted(i) == tips[i] \in {"created", "mounted", "shown"} /\ tips'[i] = "hideCalled"

\* C1: a controller has at most one live template instance at any time; a
\* show() while an overlay is open creates no second instance.
C1_AtMostOneInstance == Cardinality(Live) <= 1

\* C2: between handlers, localShow is true exactly when this.$_tip holds an
\* instance.
C2_ShownIffInstance == localShow <=> (tip # 0)

\* C2 witness: closed again after an overlay had been mounted (the poll it
\* started still runs), so show() and destroyTemplate() have both acted.
C2_Witness == ~localShow /\ tip = 0 /\ visibleInterval /\ Live = {}

\* The preconditions of show() on the host: it exists, is attached and
\* visible and is no open dropdown toggle.
HostShowable(s) ==
  GetTarget(s) # Null /\ InDocument(s) /\ IsVisible(s) /\ ~DropdownOpen(s)

\* C3 as stated: after any sequence of trigger events on the host, the
\* overlay is shown if and only if some trigger kind is active and the host
\* is attached, visible and no open dropdown toggle.
C3_ShownIffActive == localShow <=> (AnyActive(activeTrigger) /\ HostShowable(St))

\* C3 as amended: a trigger event opens the overlay only if, after the event,
\* some trigger kind is active and the host is attached, visible and no open
\* dropdown toggle.
C3_OpenedOnlyIfActive ==
  [][(lastEvt' \in DomTypes /\ ~localShow /\ localShow')
       => (AnyActive(activeTrigger') /\ HostShowable(St'))]_vars

\* C3 witness: a mouseenter has just opened the overlay (the instance is
\* created, not yet mounted) and hover is the active trigger.
C3_Witness ==
  /\ lastEvt = "mouseenter" /\ localShow /\ tip # 0 /\ tips[tip] = "created"
  /\ activeTrigger["hover"] /\ hoverState = "in" /\ host = "ok"

\* The flags once a leave-type event has cleared its own flag: hover for
\* mouseleave, focus for focusout, click for the closing half of a click.
OwnFlagCleared(at, evt) ==
  CASE evt = "mouseleave" -> [at EXCEPT !["hover"] = FALSE]
    [] evt = "focusout" -> [at EXCEPT !["focus"] = FALSE]
    [] evt = "click" -> [at EXCEPT !["click"] = ~@]
    [] OTHER -> at

\* The same with the blur rule: a focusout with `blur` among the triggers
\* clears click and hover too.
BlurFlagsCleared(at, evt) ==
  IF evt = "focusout" /\ "blur" \in computedTriggers
  THEN [at EXCEPT !["focus"] = FALSE, !["click"] = FALSE, !["hover"] = FALSE]
  ELSE OwnFlagCleared(at, evt)

\* This step neither closes the overlay, nor tells a template to hide, nor
\* schedules a hide timer.
NoClose ==
  /\ \A i \in 1..MaxTips : ~HideStarted(i)
  /\ leaveTimeouts' = leaveTimeouts
  /\ localShow => localShow'

LeaveTypes == {"mouseleave", "focusout", "click"}

\* C4 as stated: a leave event (mouseleave, focusout, closing click) neither
\* closes the overlay nor schedules a hide timer while some trigger kind is
\* still active once the event's own flag is cleared.
C4_NoCloseWhileActive ==
  [][(lastEvt' \in LeaveTypes /\ AnyActive(OwnFlagCleared(activeTrigger, lastEvt')))
       => NoClose]_vars

\* C4 as amended: the same, where a focusout with `blur` among the triggers
\* counts click and hover as cleared along with focus.
C4_NoCloseWhileActiveBlur ==
  [][(lastEvt' \in LeaveTypes /\ AnyActive(BlurFlagsCleared(activeTrigger, lastEvt')))
       => NoClose]_vars

\* C4 witness: a handled mouseleave cleared hover while click stayed active,
\* and the overlay is still shown and was not told to hide.
C4_Witness ==
  /\ lastEvt = "mouseleave" /\ "hover" \in computedTriggers
  /\ enabled /\ host = "ok"
  /\ activeTrigger["click"] /\ ~activeTrigger["hover"]
  /\ localShow /\ tip # 0 /\ tips[tip] = "shown" /\ leaveTimeouts = 0

\* C5: with triggers = "click" and zero delays, every click that arrives
\* while the overlay is closed sets activeTrigger.click to true (and opens
\* the overlay), whatever show attempts failed before.
C5_ClickWhileClosedSetsFlag ==
  [][(lastEvt' = "click" /\ ~localShow /\ tip = 0 /\ enabled /\ host = "ok")
       => activeTrigger'["click"]]_vars

\* handleEvent passes a DOM event on to its handler
Handled(s) == GetTarget(s) # Null /\ ~IsDisabled(s) /\ s.enabled /\ ~DropdownOpen(s)

\* C6: with a non-zero show delay (1) a mouseenter on a closed overlay does
\* not show it, it only schedules the show; (2) a handled mouseleave that
\* leaves no trigger active cancels the pending show timer; (3) a show
\* timer that fires shows the overlay only if hoverState is still "in".
C6_DelayedShowCancelled ==
  [][ComputedDelay.show # 0 =>
       /\ (lastEvt' = "mouseenter" /\ ~localShow) => ~localShow'
       /\ (lastEvt' = "mouseleave" /\ "hover" \in computedTriggers /\ Handled(St)
             /\ ~AnyActive(activeTrigger')) => ~hoverTimeout'
       /\ (lastEvt' = "other" /\ hoverTimeout /\ ~hoverTimeout' /\ ~localShow /\ localShow')
             => hoverState = "in"]_vars

\* C6 witness: on an overlay that was never mounted, a mouseleave has left
\* no trigger active: no show timer is pending and nothing is shown.
C6_Witness ==
  /\ ComputedDelay.show # 0 /\ lastEvt = "mouseleave"
  /\ hoverState = "out" /\ ~hoverTimeout /\ ~AnyActive(activeTrigger)
  /\ ~localShow /\ tip = 0 /\ ~visibleInterval /\ leaveTimeouts = 1

PendingTimers == (IF hoverTimeout THEN 1 ELSE 0) + leaveTimeouts

\* C7: at most one delay timer (show-delay or hide-delay) is pending at any
\* time.
C7_AtMostOneTimer == PendingTimers <= 1

\* C8: a hide timer hides the overlay only if it is the one scheduled by the
\* most recent leave, that is, no later hide timer is pending when it fires.
C8_NoStaleHideTimer ==
  [][(leaveTimeouts' = leaveTimeouts - 1 /\ \E i \in 1..MaxTips : HideStarted(i))
       => leaveTimeouts = 1]_vars

\* C10: the host's aria-describedby contains the controller's id exactly
\* when the controller has an open overlay.
C10_AriaIffOpen == (OwnIds(aria.v) > 0) <=> localShow

\* triggers containing focus and blur: all callbacks, for a controller with
\* every trigger and no delay and for one with a hide delay.
InitFocusBlur ==
  \/ Created(Cfg("id", {"click", "hover", "focus", "blur"}, NoDelay, "modal", NoAttr))
  \/ Created(Cfg("#id", {"click", "focus", "blur"}, Delayed, "modal", Attr(<<"a">>)))

SpecFocusBlur == InitFocusBlur /\ [][Next]_vars

\* The result r of a handler closes the overlay: it told the template to
\* hide or, with a hide delay, scheduled the hide timer.
Closes(r) ==
  IF ComputedDelay.hide = 0
  THEN r.tips[r.tip] \in {"hideCalled", "hiding"} /\ r.hoverState = ""
  ELSE r.hoverState = "out" /\ r.leaveTimeouts = leaveTimeouts + 1

\* C9: with focus and blur among the triggers and an open overlay (1) a
\* focusout whose target and relatedTarget both lie in the host or the
\* overlay changes no state; (2) a handled focusout whose relatedTarget lies
\* outside both clears click, hover and focus and closes the overlay.
C9_FocusOutBlur ==
  ({"focus", "blur"} \subseteq computedTriggers /\ localShow /\ GetTemplateElement(St))
    => /\ \A src \in {"host", "tip"}, rel \in {"host", "tip"}, p \in BOOLEAN :
            HandleEvent(St, "focusout", src, rel, p) = St
       /\ Handled(St) =>
            \A src \in {"host", "tip"} :
              LET r == HandleEvent(St, "focusout", src, "other", FALSE)
              IN  r.ok => (~AnyActive(r.activeTrigger) /\ Closes(r))

\* C9 witness: a focusout was handled on an open, mounted overlay and the
\* focus and click flags are still active, so it was one that stayed inside.
C9_Witness ==
  /\ {"focus", "blur"} \subseteq computedTriggers
  /\ lastEvt = "focusout" /\ enabled /\ host = "ok"
  /\ localShow /\ tip # 0 /\ tips[tip] = "shown"
  /\ activeTrigger["focus"] /\ activeTrigger["click"]

\* ------------------------------------------------- aria-describedby round trip
\* Every aria-describedby value of up to MaxAttrLen characters made of the
\* ids "a" and "b" and whitespace, and the absent attribute.
AttrChars == {"a", "b", " "}
AttrValues ==
  {NoAttr} \cup { Attr(str) : str \in UNION { [1..n -> AttrChars] : n \in 0..MaxAttrLen } }

\* A controller with the click trigger on a host with any of these attribute
\* values; it is shown and hidden by clicks and the global commands and the
\* template runs its whole lifecycle (it always mounts).
InitAria == \E a \in AttrValues : Created(Cfg("id", {"click"}, NoDelay, "plain", a))

NextAria ==
  \/ HostEvent("click", "other", FALSE)
  \/ GlobalShow("own", FALSE)
  \/ GlobalHide("own")
  \/ \E i \in 1..MaxTips : TemplateShow(i)
  \/ \E i \in 1..MaxTips : TemplateShown(i, FALSE)
  \/ \E i \in 1..MaxTips : TemplateHide(i)
  \/ \E i \in 1..MaxTips : TemplateHidden(i)

SpecAria == InitAria /\ [][NextAria]_vars

\* The ids in an attribute value, in order
IdsOf(a) == SelectSeq(SplitWS(a.v), LAMBDA d : d # <<>>)

\* The value is a list of ids separated by single spaces
SingleSpaced(str) ==
  /\ Len(str) > 0
  /\ str[1] # " " /\ str[Len(str)] # " "
  /\ \A i \in 1..(Len(str) - 1) : ~(str[i] = " " /\ str[i+1] = " ")

\* The controller is closed again after an overlay was shown and its hide
\* completed (the poll started by the show callback is the trace of it).
ClosedAfterRoundTrip == ~localShow /\ tip = 0 /\ Live = {} /\ visibleInterval

\* C11 as stated: after show() and a completed hide the host's
\* aria-describedby equals exactly its pre-show value.
C11_AriaRoundTrip == ClosedAfterRoundTrip => aria = aria0

\* C11 as amended: after show() and a completed hide the attribute holds the
\* pre-show ids in their order, joined by single spaces, and is absent when
\* there were none; an absent attribute or a single-spaced list is restored
\* exactly.
C11_AriaRoundTripIds ==
  ClosedAfterRoundTrip =>
    /\ IdsOf(aria) = IdsOf(aria0)
    /\ aria = (IF IdsOf(aria0) = <<>> THEN NoAttr ELSE Attr(JoinSp(IdsOf(aria0))))
    /\ (~aria0.has \/ SingleSpaced(aria0.v)) => aria = aria0

\* C11 witness: a host that had two other ids is closed again after a
\* completed hide and has them back.
C11_Witness ==
  /\ ClosedAfterRoundTrip /\ aria0 = Attr(<<"b", " ", "a">>) /\ aria = aria0

\* ------------------------------------------------ round trip of a show and hide
\* C12: starting from the closed state, show() followed by hide() and the
\* template's hide and hidden callbacks leaves every transient field at its
\* closed value: whenever the overlay closes, all activeTrigger flags are
\* false, hoverState is "", no delay timer is pending, no visibility poll is
\* running and there is no overlay instance.
C12_RoundTripRestores ==
  [][(localShow /\ ~localShow')
       => /\ ~AnyActive(activeTrigger') /\ hoverState' = ""
          /\ ~hoverTimeout' /\ leaveTimeouts' = 0
          /\ ~visibleInterval'
          /\ tip' = 0]_vars

\* ---------------------------------------------------------- global commands
\* A controller with click and hover triggers on a host inside a modal: DOM
\* events on the host, the four global commands with every kind of id, and
\* the template's lifecycle.
InitGlobal == Created(Cfg("id", {"click", "hover"}, NoDelay, "modal", NoAttr))

NextGlobal ==
  \/ \E ty \in {"click", "mouseenter", "mouseleave"} : HostEvent(ty, "other", FALSE)
  \/ \E id \in Ids : GlobalHide(id)
  \/ \E id \in Ids, p \in BOOLEAN : GlobalShow(id, p)
  \/ \E id \in Ids : GlobalDisable(id)
  \/ \E id \in Ids : GlobalEnable(id)
  \/ \E h \in {"ok", "detached"} : HostChange(h)
  \/ \E i \in 1..MaxTips : TemplateShow(i)
  \/ \E i \in 1..MaxTips : TemplateShown(i, FALSE)
  \/ \E i \in 1..MaxTips : TemplateHide(i)
  \/ \E i \in 1..MaxTips : TemplateHidden(i)

SpecGlobal == InitGlobal /\ [][NextGlobal]_vars

\* C13: a global hide/show/enable/disable command carrying the id of another
\* controller or element leaves this controller's state unchanged; a command
\* with no id or with the controller's own id is applied, and so is one with
\* the host element's id while the host is found.
C13_GlobalCommandIds ==
  \A p \in BOOLEAN :
    /\ DoHide(St, "otherId") = St /\ DoShow(St, "otherId", p) = St
    /\ DoDisable(St, "otherId") = St /\ DoEnable(St, "otherId") = St
    /\ \A id \in {"", "own"} \cup (IF GetTarget(St) # Null THEN {"hostId"} ELSE {}) :
         /\ DoHide(St, id) = ForceHide(St) /\ DoShow(St, id, p) = Show(St, p)
         /\ DoDisable(St, id) = Disable(St) /\ DoEnable(St, id) = Enable(St)

\* C13 witness: the controller was disabled by a global command while its
\* overlay was shown (`enabled` changes through doDisable and doEnable only).
C13_Witness == ~enabled /\ localShow /\ tip # 0 /\ tips[tip] = "shown"

\* The overlay is open: its template is mounted and was not told to hide.
Open(s) == s.localShow /\ s.tip # 0 /\ s.tips[s.tip] \in {"mounted", "shown"}

\* C14: a global hide with no id, on an open controller and whatever its
\* activeTrigger flags are, tells the template to hide and clears all active
\* triggers and hoverState; and once the template reports hidden the
\* controller is closed.
C14_GlobalHideClosesOpen ==
  /\ [](Open(St) =>
          LET r == DoHide(St, "")
          IN  /\ r.tips[r.tip] = "hideCalled"
              /\ ~AnyActive(r.activeTrigger) /\ r.hoverState = "")
  /\ [][(tip # 0 /\ tips[tip] = "hiding" /\ tips'[tip] = "free")
          => (~localShow' /\ tip' = 0)]_vars

\* C14 witness: a force hide has told the mounted template to hide: the
\* while-open modal listener is already removed although the template has
\* not emitted `hide` yet (hide() alone leaves it registered until then).
C14_Witness ==
  /\ hostKind = "modal" /\ host = "ok" /\ localShow
  /\ tip # 0 /\ tips[tip] = "hideCalled" /\ ~modalListener
  /\ ~AnyActive(activeTrigger) /\ hoverState = ""

\* ---------------------------------------------------------- visibility poll
\* A controller with click and hover triggers whose host may be hidden,
\* detached and shown again: DOM events on the host, the visibility poll, the
\* host's changes and the template's lifecycle.
InitPoll == Created(Cfg("id", {"click", "hover"}, NoDelay, "plain", Attr(<<"a">>)))

NextPoll ==
  \/ \E ty \in {"click", "mouseenter", "mouseleave"} : HostEvent(ty, "other", FALSE)
  \/ \E h \in {"ok", "hidden", "detached"} : HostChange(h)
  \/ VisiblePoll
  \/ \E i \in 1..MaxTips : TemplateShow(i)
  \/ \E i \in 1..MaxTips : TemplateShown(i, FALSE)
  \/ \E i \in 1..MaxTips : TemplateHide(i)
  \/ \E i \in 1..MaxTips : TemplateHidden(i)

SpecPoll == InitPoll /\ [][NextPoll]_vars

\* The overlay closes in this step while the host is not visible
ClosesWhileNotVisible ==
  host \in {"hidden", "detached"} /\ host' = host /\ localShow /\ ~localShow'

\* C15: while the overlay is open and the host is not visible, a visibility
\* poll is running and its next callback force-hides the overlay; and when
\* the overlay then closes (hidden callback), the controller's id is no
\* longer in the host's aria-describedby.
C15_HiddenHostForceClosed ==
  /\ []((Open(St) /\ ~IsVisible(St)) =>
          /\ visibleInterval
          /\ PollCallback(St).tips[tip] = "hideCalled")
  /\ [][ClosesWhileNotVisible => OwnIds(aria'.v) = 0]_vars

\* C15 for a host that stays attached to the document (display: none): the
\* detached host is left out.
C15_HiddenAttachedHostForceClosed ==
  /\ []((Open(St) /\ ~IsVisible(St)) =>
          /\ visibleInterval
          /\ PollCallback(St).tips[tip] = "hideCalled")
  /\ [][(ClosesWhileNotVisible /\ host = "hidden") => OwnIds(aria'.v) = 0]_vars

\* C16: the visibility poll runs only while the overlay is open: when the
\* controller is closed no visibility-poll interval is running.
C16_PollOnlyWhileOpen == visibleInterval => localShow

\* --------------------------------------------------------------- destruction
\* $destroy() on the controller.  Vue runs the hook named beforeDestroy; the
\* component defines `beforDestroy`, which is no hook and is never called:
\* no listener is removed, no timer is cleared, no overlay is torn down.
Destroy ==
  /\ ~destroyed
  /\ destroyed' = TRUE
  /\ lastEvt' = "other"
  /\ threw' = FALSE
  /\ hidAgain' = FALSE
  /\ UNCHANGED << config, host, activeTrigger, hoverState, localShow, enabled,
                  tip, tips, hoverTimeout, leaveTimeouts, visibleInterval,
                  modalListener, dropdownListener, aria >>

\* A controller with click and hover triggers and delays that may be
\* destroyed at any moment: DOM events on the host, the delay timers, the
\* poll, the global show command and the template's lifecycle.
InitDestroy == Created(Cfg("id", {"click", "hover"}, Delayed, "plain", NoAttr))

NextDestroy ==
  \/ Destroy
  \/ \E ty \in {"click", "mouseenter", "mouseleave"} : HostEvent(ty, "other", FALSE)
  \/ GlobalShow("", FALSE)
  \/ ShowTimeout(FALSE)
  \/ LeaveTimeout(FALSE)
  \/ VisiblePoll
  \/ \E i \in 1..MaxTips : TemplateShow(i)
  \/ \E i \in 1..MaxTips : TemplateShown(i, FALSE)
  \/ \E i \in 1..MaxTips : TemplateHide(i)
  \/ \E i \in 1..MaxTips : TemplateHidden(i)

SpecDestroy == InitDestroy /\ [][NextDestroy]_vars

\* C17: once the controller is destroyed its host listeners and global
\* subscriptions are unregistered, no delay timer is pending, no visibility
\* poll is running and no overlay is open; and no event or timer arriving
\* after the destruction changes its state or shows an overlay.
C17_DestroyedIsInert ==
  /\ [](destroyed =>
          /\ ~listening /\ ~modalListener /\ ~dropdownListener
          /\ ~hoverTimeout /\ leaveTimeouts = 0 /\ ~visibleInterval
          /\ ~localShow /\ tip = 0)
  /\ [][destroyed =>
          UNCHANGED << activeTrigger, hoverState, localShow, enabled, tip, tips, aria >>]_vars

\* C17, the second half alone: a controller that was closed and idle when it
\* was destroyed shows no overlay afterwards.
C17_NoShowAfterDestroy == [][destroyed => ~(~localShow /\ localShow')]_vars

\* ------------------------------------------------ cancelled show and hide
\* C18: when a listener prevents the default of the show notification,
\* show() on a closed controller completes without raising, leaves no
\* overlay instance, leaves isShown false and does not touch
\* aria-describedby.
C18_CancelledShowIsClean ==
  /\ [](~threw)
  /\ []((HostShowable(St) /\ ~localShow /\ tip = 0) =>
          LET r == Show(St, TRUE)
          IN  /\ r.tip = 0 /\ r.tips = tips /\ ~r.localShow
              /\ r.aria = aria)

\* C19: hide(force) on an open overlay tells the template to hide if and
\* only if force is true or no listener prevented the hide notification; a
\* prevented hide without force changes nothing (instance, isShown and
\* while-open listeners stay), and forceHide() always proceeds.
C19_HideUnlessPrevented ==
  Open(St) =>
    /\ \A force \in BOOLEAN, prevent \in BOOLEAN :
         LET r == Hide(St, force, prevent)
         IN  /\ (r.tips[tip] = "hideCalled") <=> (force \/ ~prevent)
             /\ (~force /\ prevent) => r = St
    /\ ForceHide(St).tips[tip] = "hideCalled"

\* C19 witness: the closing click of an open overlay whose hide was
\* prevented: the click flag is cleared and hoverState is "out", and the
\* overlay is still shown with its poll.
C19_Witness ==
  /\ lastEvt = "click" /\ computedTriggers = {"click"} /\ host = "ok"
  /\ localShow /\ tip # 0 /\ tips[tip] = "shown" /\ visibleInterval
  /\ ~activeTrigger["click"] /\ hoverState = "out"

\* ------------------------------------------------------ delay normalization
\* The delay inputs: numbers of magnitude up to MaxDelay, strings of up to
\* MaxDelayStrLen characters, objects with any subset of numeric show/hide
\* fields, and a value of another type.
DelayChars == {"-", "2", "x", " "}
RawDelays ==
  { NumDelay(n) : n \in (0 - MaxDelay)..MaxDelay }
    \cup { StrDelay(str) : str \in UNION { [1..n -> DelayChars] : n \in 0..MaxDelayStrLen } }
    \cup { ObjDelay(IF "show" \in num THEN sh ELSE 0, IF "hide" \in num THEN hd ELSE 0, num) :
             sh \in (0 - MaxDelay)..MaxDelay, hd \in (0 - MaxDelay)..MaxDelay,
             num \in SUBSET {"show", "hide"} }
    \cup { OtherDelay }

\* A controller with the hover trigger and any of these delays: the enter
\* and leave events, the delay timers and the template's lifecycle use the
\* normalized delay.
InitDelay == \E d \in RawDelays : Created(Cfg("id", {"hover"}, d, "plain", NoAttr))

NextDelay ==
  \/ \E ty \in {"mouseenter", "mouseleave"} : HostEvent(ty, "other", FALSE)
  \/ ShowTimeout(FALSE)
  \/ LeaveTimeout(FALSE)
  \/ \E i \in 1..MaxTips : TemplateShow(i)
  \/ \E i \in 1..MaxTips : TemplateShown(i, FALSE)
  \/ \E i \in 1..MaxTips : TemplateHide(i)
  \/ \E i \in 1..MaxTips : TemplateHidden(i)

SpecDelay == InitDelay /\ [][NextDelay]_vars

\* The input holds no valid delay at all
AllInvalid(d) ==
  \/ d.kind = "other"
  \/ d.kind = "string" /\ ParseInt(d.str).nan
  \/ d.kind = "object" /\ d.numeric = {}

\* C20: for every raw delay input the normalized delay has show >= 0 and
\* hide >= 0, and an all-invalid input normalizes to {show: 0, hide: 0}.
C20_DelayNonNegative ==
  /\ ComputedDelay.show >= 0 /\ ComputedDelay.hide >= 0
  /\ AllInvalid(delay) => ComputedDelay = [show |-> 0, hide |-> 0]

\* C20 for string inputs alone, which computedDelay clamps at 0.
C20_StringDelayNonNegative ==
  delay.kind = "string" =>
    /\ ComputedDelay.show >= 0 /\ ComputedDelay.hide >= 0
    /\ AllInvalid(delay) => ComputedDelay = [show |-> 0, hide |-> 0]

\* ------------------------------------------------------ disabled controller
\* A hover/click controller with delays (show 100 ms, hide 50 ms) that is
\* disabled and enabled by global commands while its host is hovered, clicked
\* and toggled and its timers run.  No hide command and no forced hide is
\* among the steps.
InitDisabled == Created(Cfg("id", {"click", "hover"}, Delayed, "plain", NoAttr))

NextDisabled ==
  \/ \E ty \in {"click", "mouseenter", "mouseleave"} : HostEvent(ty, "other", FALSE)
  \/ \E i \in 1..MaxTips, ty \in {"mouseenter", "mouseleave"} : TipEvent(i, ty, "other", FALSE)
  \/ ToggleCall(FALSE)
  \/ GlobalDisable("own")
  \/ GlobalEnable("own")
  \/ ShowTimeout(FALSE)
  \/ LeaveTimeout(FALSE)
  \/ \E i \in 1..MaxTips : TemplateShow(i)
  \/ \E i \in 1..MaxTips : TemplateShown(i, FALSE)
  \/ \E i \in 1..MaxTips : TemplateHide(i)
  \/ \E i \in 1..MaxTips : TemplateHidden(i)

SpecDisabled == InitDisabled /\ [][NextDisabled]_vars

\* The overlay is open and no hide of it is in progress
OpenNow == Open(St)

\* While disabled, handleEvent for every event type, source and related
\* target, click() and toggle() return the state unchanged
DisabledHandlersNoOp ==
  ~enabled =>
    /\ \A ty \in DomTypes, src \in {"host", "tip"}, rel \in Places, p \in BOOLEAN :
         HandleEvent(St, ty, src, rel, p) = St
    /\ \A p \in BOOLEAN : Click(St, p) = St /\ Toggle(St, p) = St

C22_NoDoubleHide == ~hidAgain

\* ------------------------------------------------- leave while opening
\* A hover/click controller, without delays or with them, whose host is
\* hovered and clicked while the template mounts and shows.  Timers and
\* template callbacks that are due do run: the browser's event loop delivers
\* them.
InitShownLeave ==
  \E d \in {NoDelay, Delayed} : Created(Cfg("id", {"click", "hover"}, d, "plain", NoAttr))

TemplateSteps ==
  \/ \E i \in 1..MaxTips : TemplateShow(i)
  \/ \E i \in 1..MaxTips : TemplateShown(i, FALSE)
  \/ \E i \in 1..MaxTips : TemplateHide(i)
  \/ \E i \in 1..MaxTips : TemplateHidden(i)

NextShownLeave ==
  \/ \E ty \in {"click", "mouseenter", "mouseleave"} : HostEvent(ty, "other", FALSE)
  \/ ShowTimeout(FALSE)
  \/ LeaveTimeout(FALSE)
  \/ TemplateSteps

SpecShownLeave ==
  /\ InitShownLeave
  /\ [][NextShownLeave]_vars
  /\ WF_vars(LeaveTimeout(FALSE))
  /\ WF_vars(TemplateSteps)

\* The overlay is opening (shown callback still to come) after a leave that
\* left no trigger active
LeftWhileOpening ==
  /\ localShow /\ tip # 0 /\ tips[tip] \in {"created", "mounted"}
  /\ hoverState = "out" /\ ~AnyActive(activeTrigger)

\* C23: when the shown callback finds hoverState 'out' it leaves: the
\* template is told to hide, or with a hide delay the hide timer is started
\* and hoverState is 'out' again; and an overlay that was left with no
\* active trigger while it was opening is eventually closed or gets an active
\* trigger again.
C23_LeaveOnShown ==
  /\ [][(LeftWhileOpening /\ tips[tip] = "mounted" /\ tip' = tip /\ tips'[tip] = "shown")
          => (leaveTimeouts' = leaveTimeouts + 1 /\ hoverState' = "out")]_vars
  /\ [][(LeftWhileOpening /\ tips[tip] = "mounted" /\ ComputedDelay.hide = 0
           /\ lastEvt' = "other")
          => (tip' = tip /\ tips'[tip] = "hideCalled" /\ hoverState' = "")]_vars
  /\ (LeftWhileOpening ~> (~localShow \/ AnyActive(activeTrigger)))

\* C23 witness: the shown callback has told the template to hide, after a
\* mouseleave that came before the template was mounted.
C23_Witness ==
  /\ delay = NoDelay /\ lastEvt = "other"
  /\ localShow /\ tip # 0 /\ tips[tip] = "hideCalled"
  /\ hoverState = "" /\ ~AnyActive(activeTrigger)

\* ------------------------------------------------ opening after a failed show
\* A hover/focus controller, without delays or with them, whose show
\* notification may be cancelled and whose host may be hidden and shown
\* again.
InitReopen ==
  \E d \in {NoDelay, Delayed} : Created(Cfg("id", {"hover", "focus"}, d, "plain", NoAttr))

NextReopen ==
  \/ \E ty \in {"mouseenter", "mouseleave", "focusin", "focusout"}, p \in BOOLEAN :
       HostEvent(ty, "other", p)
  \/ \E p \in BOOLEAN : ShowTimeout(p)
  \/ LeaveTimeout(FALSE)
  \/ \E h \in {"ok", "hidden"} : HostChange(h)
  \/ TemplateSteps

SpecReopen == InitReopen /\ [][NextReopen]_vars

\* C24: whenever the controller is enabled and closed with no show timer
\* pending and the host can be shown on, the next mouseenter or focusin on
\* the host opens the overlay or starts its show timer.
C24_FailedShowDoesNotBlock ==
  (enabled /\ ~localShow /\ ~hoverTimeout /\ HostShowable(St)) =>
    \A ty \in {"mouseenter", "focusin"} :
      LET r == HandleEvent(St, ty, "host", "other", FALSE)
      IN  Listens(ty) => (r.localShow \/ r.hoverTimeout)

\* ------------------------------------------------------- target resolution
\* C25: for every form of the target (element reference, component
\* reference, id string with or without '#') getTarget() yields the host
\* element while it is in the document, listen() has registered the trigger
\* listeners, and show() opens the overlay on a visible host.
C25_TargetResolves ==
  /\ listening
  /\ host # "detached" => GetTarget(St) = "host"
  /\ (host = "ok" /\ ~localShow /\ Live = {}) => Show(St, FALSE).localShow

\* C25 for the id-string forms alone, which getTarget() does resolve.
C25_IdTargetResolves ==
  target \in {"id", "#id"} =>
    /\ listening
    /\ host # "detached" => GetTarget(St) = "host"
    /\ (host = "ok" /\ ~localShow /\ Live = {}) => Show(St, FALSE).localShow

====
